---- MODULE Spec2Model ----
(***************************************************************************)
(* Model of flexselect/__init__.py: the choice builder, the instance       *)
(* resolver, the widget registry with its hashed identifiers, and the      *)
(* render step of FlexBaseWidget.                                          *)
(*                                                                         *)
(* Python values are tagged records so that values of different Python     *)
(* types can be compared: None is [none |-> TRUE], a str is [str |-> s],   *)
(* an int is [int |-> n], a persisted record is [pk |-> p, name |-> n].    *)
(* Texts that the code takes apart character by character (the request     *)
(* path, submitted values) are sequences of one-character strings.         *)
(***************************************************************************)
EXTENDS Integers, Sequences, FiniteSets, TLC

VARIABLES
    SECRET_KEY,   \* settings.SECRET_KEY
    widgets,      \* the widget objects constructed so far, in construction order
    instances,    \* FlexBaseWidget.instances: hashed name -> widget (index in widgets)
    op,           \* the call that ran last
    ret,          \* what that call returned or raised, and the instance it resolved
    trace         \* the hooks and framework callbacks that call invoked, in order

vars == <<SECRET_KEY, widgets, instances, op, ret, trace>>

----------------------------------------------------------------------------
(* Bounds *)

MaxWidgets == 2     \* widget constructions in one behaviour
MaxLen == 4         \* records in a queryset handed to choices_from_queryset
MaxPathLen == 3     \* characters in PATH_INFO
MaxRelated == 2     \* records the queryset() hook returns during a render

----------------------------------------------------------------------------
(* Python values *)

None == [none |-> TRUE]
Str(s) == [str |-> s]
IntV(n) == [int |-> n]
Returned(v) == [exc |-> "", value |-> v]
Raised(e) == [exc |-> e]

RECURSIVE SeqsUpTo(_, _)
SeqsUpTo(S, n) ==
    IF n = 0 THEN {<<>>}
    ELSE LET shorter == SeqsUpTo(S, n - 1)
         IN  shorter \cup {Append(s, x) : s \in {t \in shorter : Len(t) = n - 1}, x \in S}

(* A Python dict with string keys, as a function on the set of its keys. *)
Dicts(K, V) == UNION {[D -> V] : D \in SUBSET K}

----------------------------------------------------------------------------
(* EMPTY_CHOICE and choices_from_queryset *)

EMPTY_CHOICE == <<Str(""), "---------">>

Records == {[pk |-> 1, name |-> "A"], [pk |-> 2, name |-> "B"], [pk |-> 3, name |-> "A"]}

(* smart_unicode(o): the text of a record, which is its name, not the record. *)
smart_unicode(o) == o.name

(* Faulty variant: the first record is left out. *)
choices_from_queryset_dropfirst(queryset) ==
    <<EMPTY_CHOICE>> \o [i \in 1..(Len(queryset) - 1) |->
                            <<[pk |-> queryset[i + 1].pk], smart_unicode(queryset[i + 1])>>]

choices_from_queryset(queryset) ==
    <<EMPTY_CHOICE>> \o
    [i \in 1..Len(queryset) |-> <<[pk |-> queryset[i].pk], smart_unicode(queryset[i])>>]

----------------------------------------------------------------------------
(* Requests *)

PathChars == {"/", "0", "7", "a"}
Digits == {"0", "7"}
DigitValue(c) == IF c = "7" THEN 7 ELSE 0

Paths == SeqsUpTo(PathChars, MaxPathLen)

(* The model the widget's base field belongs to: base_field.model._meta.fields. *)
(* formfield is FALSE for a field whose formfield() is None (the automatic     *)
(* primary key); null says whether an unset relation reads as None or raises.  *)
ModelFields == <<
    [name |-> "id",      formfield |-> FALSE, null |-> TRUE],
    [name |-> "client",  formfield |-> TRUE,  null |-> FALSE],
    [name |-> "contact", formfield |-> TRUE,  null |-> TRUE] >>

FieldNames == {ModelFields[i].name : i \in DOMAIN ModelFields}
PostNames == FieldNames \cup {"csrfmiddlewaretoken"}
RawValues == {<<>>, <<"7">>, <<"a">>}

GetRequests == {[method |-> m, PATH_INFO |-> p, POST |-> <<>>] : m \in {"GET", "HEAD"}, p \in Paths}
PostRequests ==
    {[method |-> "POST", PATH_INFO |-> <<"/">>, POST |-> d] : d \in Dicts(PostNames, RawValues)}
Requests == GetRequests \cup PostRequests

----------------------------------------------------------------------------
(* Widgets: FlexBaseWidget.__init__ and _hashed_name *)

Secret == "s3cr3t"
AdminClassNames == {"Admin", "StudyAdmin"}
UniqueNames == {None, Str("contact_select")}
Variants == {"Select", "SelectMultiple"}
TriggerFieldLists == {<<>>, <<"client">>, <<"nosuch">>}

(* hashlib.sha1(s).hexdigest(): a digest that differs from its input and is *)
(* taken to be collision-free, so equal digests come from equal inputs only. *)
sha1_hexdigest(s) == "sha1<" \o s \o ">"

(* The attributes a widget has before __init__ computes its hashed name:    *)
(* lines 108-111 and the class attributes unique_name, trigger_fields and   *)
(* the three hooks (hooks = FALSE: the subclass left them unimplemented).   *)
WidgetConfigs(fields, admins, uniques, triggers, hookss, requests) ==
    {[base_field |-> [name |-> f], modeladmin |-> [class_name |-> a], request |-> r,
      choice_function |-> c, unique_name |-> u, variant |-> v,
      trigger_fields |-> t, hooks |-> h] :
        f \in fields, a \in admins, r \in requests, c \in BOOLEAN, u \in uniques,
        v \in Variants, t \in triggers, h \in hookss}

(* Faulty variant: the widget class takes part in the salted string. *)
_hashed_name_with_variant(w) ==
    IF w.unique_name # None THEN w.unique_name.str
    ELSE "_" \o sha1_hexdigest(SECRET_KEY \o w.base_field.name
                               \o w.modeladmin.class_name \o w.variant)

_hashed_name(w) ==
    IF w.unique_name # None
    THEN w.unique_name.str
    ELSE LET salted_string == SECRET_KEY \o w.base_field.name \o w.modeladmin.class_name
         IN  "_" \o sha1_hexdigest(salted_string)

(* Lines 108-113: the new object with its attributes and its hashed name. *)
NewWidget(cfg) ==
    [base_field |-> cfg.base_field, modeladmin |-> cfg.modeladmin, request |-> cfg.request,
     choice_function |-> cfg.choice_function, unique_name |-> cfg.unique_name,
     variant |-> cfg.variant, trigger_fields |-> cfg.trigger_fields, hooks |-> cfg.hooks,
     hashed_name |-> _hashed_name(cfg), choices |-> <<>>, registered |-> FALSE]

(* Faulty variant: an identifier already present keeps its widget. *)
RegistryPut_keep_first(registry, key, i) ==
    IF key \in DOMAIN registry THEN registry ELSE (key :> i) @@ registry

(* Line 114: FlexSelectWidget.instances[self.hashed_name] = self. The class *)
(* attribute is the one dict of FlexBaseWidget, shared by both variants.    *)
RegistryPut(registry, key, i) == (key :> i) @@ registry

RegistryConfigs ==
    WidgetConfigs({"case", "caseStudy"}, AdminClassNames, UniqueNames, {<<>>}, {TRUE},
                  {[method |-> "GET", PATH_INFO |-> <<"/", "7", "/">>, POST |-> <<>>],
                   [method |-> "POST", PATH_INFO |-> <<"/">>, POST |-> <<>>]})

(* __init__ up to line 113: the object exists and knows its hashed name. *)
Construct(cfg) ==
    /\ Len(widgets) < MaxWidgets
    /\ widgets' = Append(widgets, NewWidget(cfg))
    /\ UNCHANGED <<SECRET_KEY, instances, op, ret, trace>>

(* __init__ from line 114: the registration write of widget i. *)
Register(i) ==
    /\ ~widgets[i].registered
    /\ instances' = RegistryPut(instances, widgets[i].hashed_name, i)
    /\ widgets' = [widgets EXCEPT ![i].registered = TRUE]
    /\ UNCHANGED <<SECRET_KEY, op, ret, trace>>

Init ==
    /\ SECRET_KEY = Secret
    /\ widgets = <<>>
    /\ instances = <<>>
    /\ op = "none"
    /\ ret = [result |-> Returned(None)]
    /\ trace = <<>>

ConstructAny == \E cfg \in RegistryConfigs : Construct(cfg)
RegisterAny == \E i \in DOMAIN widgets : Register(i)

Next == ConstructAny \/ RegisterAny

Spec == Init /\ [][Next]_vars

----------------------------------------------------------------------------
(* Instance resolution: instance_from_request and _get_instance *)

(* A call of a hook or of a framework callback, as recorded in trace. *)
Call(hook, args, result) == [hook |-> hook, args |-> args, result |-> result]
Outcome(r, t) == [ret |-> r, trace |-> t]

RECURSIVE lstrip(_)
lstrip(s) == IF s # <<>> /\ Head(s) = "/" THEN lstrip(Tail(s)) ELSE s

RECURSIVE rstrip(_)
rstrip(s) ==
    IF s # <<>> /\ s[Len(s)] = "/" THEN rstrip(SubSeq(s, 1, Len(s) - 1)) ELSE s

(* str.strip('/') *)
strip(s) == rstrip(lstrip(s))

(* s.split('/').pop(): the text after the last '/', the whole text without one. *)
RECURSIVE split_pop(_)
split_pop(s) ==
    IF s = <<>> THEN <<>>
    ELSE IF s[Len(s)] = "/" THEN <<>>
    ELSE Append(split_pop(SubSeq(s, 1, Len(s) - 1)), s[Len(s)])

(* int(text) on the texts of the model, which hold no sign, blank or underscore: *)
(* ValueError unless the text is one or more decimal digits.                     *)
RECURSIVE digits_value(_)
digits_value(s) ==
    IF s = <<>> THEN 0
    ELSE 10 * digits_value(SubSeq(s, 1, Len(s) - 1)) + DigitValue(s[Len(s)])

int(s) ==
    IF s # <<>> /\ \A i \in DOMAIN s : s[i] \in Digits
    THEN Returned(digits_value(s))
    ELSE Raised("ValueError")

(* The primary keys of the related records that exist. *)
ExistingPks == {7}

(* f.formfield().to_python(raw) for a field with a form field: an empty value *)
(* is None, the key of an existing record is that record, anything else is a  *)
(* ValidationError.                                                           *)
to_python(f, raw) ==
    IF raw = <<>> THEN Returned(None)
    ELSE IF int(raw).exc = "" /\ int(raw).value \in ExistingPks
         THEN Returned([pk |-> int(raw).value])
         ELSE Raised("ValidationError")

(* Lines 81-88 from field k on, values being the dict built so far. A field *)
(* without a form field makes f.formfield() None, and None.to_python raises *)
(* AttributeError, which line 87 does not catch.                            *)
(* Faulty variant: a value that coerces to None is kept. *)
RECURSIVE collect_values_keep_none(_, _, _)
collect_values_keep_none(items, k, values) ==
    IF k > Len(ModelFields) THEN Returned(values)
    ELSE LET f == ModelFields[k]
         IN  IF f.name \notin DOMAIN items
             THEN collect_values_keep_none(items, k + 1, values)
             ELSE IF ~f.formfield THEN Raised("AttributeError")
             ELSE LET value == to_python(f, items[f.name])
                  IN  IF value.exc = ""
                      THEN collect_values_keep_none(items, k + 1,
                                                    (f.name :> value.value) @@ values)
                      ELSE collect_values_keep_none(items, k + 1, values)

RECURSIVE collect_values(_, _, _)
collect_values(items, k, values) ==
    IF k > Len(ModelFields) THEN Returned(values)
    ELSE LET f == ModelFields[k]
         IN  IF f.name \notin DOMAIN items
             THEN collect_values(items, k + 1, values)
             ELSE IF ~f.formfield THEN Raised("AttributeError")
             ELSE LET value == to_python(f, items[f.name])
                  IN  IF value.exc = "" /\ value.value # None
                      THEN collect_values(items, k + 1, (f.name :> value.value) @@ values)
                      ELSE collect_values(items, k + 1, values)

instance_from_request_keep_none(request, w) ==
    LET values == collect_values_keep_none(request.POST, 1, <<>>)
    IN  IF values.exc # "" THEN values ELSE Returned([values |-> values.value])

(* The unsaved instance that line 89 builds from the values dict. *)
instance_from_request(request, w) ==
    LET values == collect_values(request.POST, 1, <<>>)
    IN  IF values.exc # "" THEN values ELSE Returned([values |-> values.value])

(* What modeladmin.get_object can find under an identifier: no object (None), *)
(* or the stored object, whose contact is unset or set.                       *)
Rows == {"missing", "contact unset", "contact set"}

get_object(object_id, row) ==
    IF row = "missing" THEN None
    ELSE [values |-> ("id" :> IntV(object_id)) @@ ("client" :> [pk |-> 7]) @@
                     ("contact" :> IF row = "contact set" THEN [pk |-> 7] ELSE None)]

(* Faulty variant: the surrounding slashes are not stripped. *)
_get_instance_no_strip(w, row) ==
    IF w.request.method = "POST"
    THEN Outcome(instance_from_request(w.request, w), <<>>)
    ELSE LET object_id == int(split_pop(w.request.PATH_INFO))
         IN  IF object_id.exc = "ValueError" THEN Outcome(Returned(None), <<>>)
             ELSE LET found == get_object(object_id.value, row)
                  IN  Outcome(Returned(found),
                              <<Call("get_object", <<object_id.value>>, found)>>)

(* row is what the admin's object fetch finds, when the code gets to call it. *)
_get_instance(w, row) ==
    IF w.request.method = "POST"
    THEN Outcome(instance_from_request(w.request, w), <<>>)
    ELSE LET path == strip(w.request.PATH_INFO)
             object_id == int(split_pop(path))
         IN  IF object_id.exc = "ValueError" THEN Outcome(Returned(None), <<>>)
             ELSE LET found == get_object(object_id.value, row)
                  IN  Outcome(Returned(found),
                              <<Call("get_object", <<object_id.value>>, found)>>)

----------------------------------------------------------------------------
(* choices_from_instance and details_from_instance *)

(* getattr(instance, name) on None, on an unsaved instance and on a fetched one. *)
getattr(instance, name) ==
    IF instance = None THEN Raised("AttributeError")
    ELSE IF name \in DOMAIN instance.values THEN Returned(instance.values[name])
    ELSE IF \E k \in DOMAIN ModelFields : ModelFields[k].name = name
         THEN LET f == ModelFields[CHOOSE k \in DOMAIN ModelFields : ModelFields[k].name = name]
              IN  IF f.null THEN Returned(None) ELSE Raised("ObjectDoesNotExist")
         ELSE Raised("AttributeError")

(* The loop over widget.trigger_fields: "" when every access succeeds, else *)
(* the exception of the first access that raises.                           *)
RECURSIVE trigger_fields_exc(_, _)
trigger_fields_exc(instance, fields) ==
    IF fields = <<>> THEN ""
    ELSE LET r == getattr(instance, Head(fields))
         IN  IF r.exc # "" THEN r.exc ELSE trigger_fields_exc(instance, Tail(fields))

Caught == {"ObjectDoesNotExist", "AttributeError"}

(* The hooks of a subclass that implements them; the base class's raise. *)
EmptyTexts == {"---------", "Select a client first"}
CallbackChoices == {<<>>, <<<<[pk |-> 1], "A">>>>, <<EMPTY_CHOICE, <<[pk |-> 2], "B">>>>}
details(base_field_instance, instance) ==
    IF base_field_instance = None THEN "<p>None</p>" ELSE "<p>contact</p>"

(* related is what the queryset() hook returns and text what the            *)
(* empty_choices_text() hook returns, for a widget that implements them.    *)
choices_from_instance(instance, w, related, text) ==
    IF trigger_fields_exc(instance, w.trigger_fields) \in Caught
    THEN IF ~w.hooks
         THEN Outcome(Raised("NotImplementedError"),
                      <<Call("empty_choices_text", <<instance>>, None)>>)
         ELSE Outcome(Returned(<< <<Str(""), text>> >>),
                      <<Call("empty_choices_text", <<instance>>, Str(text))>>)
    ELSE IF ~w.hooks
         THEN Outcome(Raised("NotImplementedError"), <<Call("queryset", <<instance>>, None)>>)
         ELSE Outcome(Returned(choices_from_queryset(related)),
                      <<Call("queryset", <<instance>>, related)>>)

details_from_instance(instance, w) ==
    IF trigger_fields_exc(instance, w.trigger_fields) \in Caught
    THEN Outcome(Returned(""), <<>>)
    ELSE LET related_instance == getattr(instance, w.base_field.name)
         IN  IF related_instance.exc \in Caught THEN Outcome(Returned(""), <<>>)
             ELSE IF ~w.hooks
                  THEN Outcome(Raised("NotImplementedError"),
                               <<Call("details", <<related_instance.value, instance>>, None)>>)
                  ELSE LET html == details(related_instance.value, instance)
                       IN  Outcome(Returned(html),
                                   <<Call("details", <<related_instance.value, instance>>,
                                          Str(html))>>)

----------------------------------------------------------------------------
(* _build_js and render *)

RECURSIVE json_strings(_)
json_strings(names) ==
    IF names = <<>> THEN ""
    ELSE "\"" \o Head(names) \o "\"" \o
         (IF Tail(names) = <<>> THEN "" ELSE ", " \o json_strings(Tail(names)))

_build_js(w) ==
    "<script>var flexselect = flexselect || {}; " \o
    "flexselect.fields = flexselect.fields || {}; " \o
    "flexselect.url = /flexselect/field_changed; " \o
    "flexselect.fields." \o w.hashed_name \o " = " \o
    "{\"base_field\": \"" \o w.base_field.name \o "\", \"trigger_fields\": [" \o
    json_strings(w.trigger_fields) \o "]};</script>"

(* Lines 178-181: super(self, FlexBaseWidget) has its arguments the wrong way *)
(* round: the first one must be a type and is the widget, so the call raises  *)
(* TypeError before the selection control renders anything.                   *)
super_render(w, name, value) == Raised("TypeError")

(* Faulty variant: a list computed by an earlier render is kept. *)
set_choices_cached(w, choices) == IF w.choices # <<>> THEN w.choices ELSE choices

(* Lines 174 and 176: self.choices = ..., whatever the widget held before. *)
set_choices(w, choices) == choices

Rendered(result, instance, assigned, choices, t) ==
    [result |-> result, instance |-> instance, assigned |-> assigned,
     choices |-> choices, trace |-> t]

(* row, related, text and cb are what get_object, queryset(), empty_choices_text() *)
(* and the custom choice function give when render gets to call them.              *)
render(w, name, value, row, related, text, cb) ==
    LET resolved == _get_instance(w, row)
    IN  IF resolved.ret.exc # ""
        THEN Rendered(resolved.ret, resolved.ret, FALSE, w.choices, resolved.trace)
        ELSE
    LET instance == resolved.ret.value
        computed == IF w.choice_function
                    THEN Outcome(Returned(cb), <<Call("choice_function", <<instance>>, cb)>>)
                    ELSE choices_from_instance(instance, w, related, text)
        t1 == resolved.trace \o computed.trace
    IN  IF computed.ret.exc # ""
        THEN Rendered(computed.ret, resolved.ret, FALSE, w.choices, t1)
        ELSE
    LET control == super_render(w, name, value)
    IN  IF control.exc # ""
        THEN Rendered(control, resolved.ret, TRUE, set_choices(w, computed.ret.value), t1)
        ELSE
    LET js == _build_js(w)
        fragment == details_from_instance(instance, w)
        t2 == t1 \o fragment.trace
    IN  IF fragment.ret.exc # ""
        THEN Rendered(fragment.ret, resolved.ret, TRUE, set_choices(w, computed.ret.value), t2)
        ELSE Rendered(Returned(control.value \o js \o "<span class=\"flexselect_details\">"
                               \o fragment.ret.value \o "</span>"),
                      resolved.ret, TRUE, set_choices(w, computed.ret.value), t2)

---------------------------------------------------------------------------------------------------------------------------------------------------
(* The render specification: one registered widget, rendered again and again, *)
(* and details_from_instance called on it from outside render.                *)

Post(d) == [method |-> "POST", PATH_INFO |-> <<"/">>, POST |-> d]
RenderRequests ==
    {[method |-> "GET", PATH_INFO |-> <<"/", "a", "/">>, POST |-> <<>>],
     [method |-> "GET", PATH_INFO |-> <<"/", "7", "/">>, POST |-> <<>>],
     Post(<<>>),
     Post("client" :> <<"7">>),
     Post(("client" :> <<"7">>) @@ ("contact" :> <<"7">>)),
     Post(("client" :> <<"7">>) @@ ("contact" :> <<"a">>)),
     Post("id" :> <<"7">>)}

RenderConfigs ==
    WidgetConfigs({"contact"}, {"Admin"}, {None}, TriggerFieldLists, BOOLEAN, RenderRequests)

RelatedRecords == {[pk |-> 1, name |-> "A"], [pk |-> 2, name |-> "B"]}
RelatedResults == SeqsUpTo(RelatedRecords, MaxRelated)
InstanceInputs ==
    {None} \cup {[values |-> v] : v \in Dicts({"client", "contact"}, {None, [pk |-> 7]})}

Render(i, name, value, row, related, text, cb) ==
    LET r == render(widgets[i], name, value, row, related, text, cb)
    IN  /\ widgets' = [widgets EXCEPT ![i].choices = r.choices]
        /\ op' = "render"
        /\ ret' = [result |-> r.result, instance |-> r.instance, assigned |-> r.assigned,
                   widget |-> i]
        /\ trace' = r.trace
        /\ UNCHANGED <<SECRET_KEY, instances>>

DetailsFromInstance(i, instance) ==
    LET r == details_from_instance(instance, widgets[i])
    IN  /\ op' = "details_from_instance"
        /\ ret' = [result |-> r.ret, instance |-> Returned(instance), assigned |-> FALSE,
                   widget |-> i]
        /\ trace' = r.trace
        /\ UNCHANGED <<SECRET_KEY, widgets, instances>>

(* One widget, constructed and registered by __init__. *)
InitWith(configs) ==
    /\ SECRET_KEY = Secret
    /\ \E cfg \in configs :
          /\ widgets = <<[NewWidget(cfg) EXCEPT !.registered = TRUE]>>
          /\ instances = RegistryPut(<<>>, NewWidget(cfg).hashed_name, 1)
    /\ op = "none"
    /\ ret = [result |-> Returned(None)]
    /\ trace = <<>>

InitRender == InitWith(RenderConfigs)

(* The outcome of a callback the widget's configuration never lets render call *)
(* is not an input of the render: it is fixed instead of enumerated.           *)
RenderAny ==
    \E i \in DOMAIN widgets :
    \E row \in (IF widgets[i].request.method = "POST" THEN {"missing"} ELSE Rows),
       related \in (IF widgets[i].choice_function THEN {<<>>} ELSE RelatedResults),
       text \in (IF widgets[i].choice_function THEN {"---------"} ELSE EmptyTexts),
       cb \in (IF widgets[i].choice_function THEN CallbackChoices ELSE {<<>>}) :
        Render(i, widgets[i].base_field.name, IntV(7), row, related, text, cb)

DetailsFromInstanceAny ==
    \E i \in DOMAIN widgets, instance \in InstanceInputs : DetailsFromInstance(i, instance)

NextRender == RenderAny \/ DetailsFromInstanceAny

SpecRender == InitRender /\ [][NextRender]_vars

----------------------------------------------------------------------------
(* The resolver specification: _get_instance applied to every request. *)

ResolveConfigs == WidgetConfigs({"contact"}, {"Admin"}, {None}, {<<>>}, {TRUE}, Requests)

GetInstance(i, row) ==
    LET r == _get_instance(widgets[i], row)
    IN  /\ op' = "_get_instance"
        /\ ret' = [result |-> r.ret, widget |-> i]
        /\ trace' = r.trace
        /\ UNCHANGED <<SECRET_KEY, widgets, instances>>

InitResolve == InitWith(ResolveConfigs)

GetInstanceAny == \E i \in DOMAIN widgets, row \in Rows : GetInstance(i, row)

NextResolve == GetInstanceAny

SpecResolve == InitResolve /\ [][NextResolve]_vars

-----
(* The choice-builder specification: choices_from_queryset applied to querysets. *)

ChoicesFromQueryset(queryset) ==
    /\ op' = "choices_from_queryset"
    /\ ret' = [result |-> Returned(choices_from_queryset(queryset)), queryset |-> queryset]
    /\ trace' = <<>>
    /\ UNCHANGED <<SECRET_KEY, widgets, instances>>

QuerySets == SeqsUpTo(Records, MaxLen)

ChoicesFromQuerysetAny == \E queryset \in QuerySets : ChoicesFromQueryset(queryset)

NextChoices == ChoicesFromQuerysetAny

SpecChoices == Init /\ [][NextChoices]_vars

----------------------------------------------------------------------------
(* Properties of the choice builder (SpecChoices) *)

(* C2: for every finite sequence of records, choices_from_queryset yields the  *)
(* sentinel pair ('', '---------') first, then exactly one (primary key,       *)
(* label) pair per record in the records' order and nothing else; for an empty *)
(* input it yields only the sentinel.                                          *)
C2_SentinelThenOnePairPerRecord ==
    op = "choices_from_queryset" =>
        LET choices == ret.result.value
            queryset == ret.queryset
        IN  /\ ret.result.exc = ""
            /\ Len(choices) = Len(queryset) + 1
            /\ choices[1] = <<[str |-> ""], "---------">>
            /\ \A k \in 1..Len(queryset) :
                  choices[k + 1] = <<[pk |-> queryset[k].pk], queryset[k].name>>
            /\ (queryset = <<>> => choices = << <<[str |-> ""], "---------">> >>)

C2_Witness ==
    /\ op = "choices_from_queryset"
    /\ ret.queryset = <<[pk |-> 1, name |-> "A"], [pk |-> 2, name |-> "B"]>>
    /\ ret.result.value =
          << <<[str |-> ""], "---------">>, <<[pk |-> 1], "A">>, <<[pk |-> 2], "B">> >>

----------------------------------------------------------------------------
(* Properties of the registry and of the hashed names (Spec) *)

Registering(i) == ~widgets[i].registered /\ widgets'[i].registered

(* C3: whatever the interleaving of widget constructions of both variants, a  *)
(* registration write makes the registry map the widget's identifier to that  *)
(* widget (the last write wins), changes no other entry, and no step removes  *)
(* an entry or changes one without a registration write.                      *)
C3_LastWriteWins ==
    [][ /\ \A k \in DOMAIN instances : k \in DOMAIN instances'
        /\ \A i \in DOMAIN widgets :
              Registering(i) =>
                  /\ widgets[i].hashed_name \in DOMAIN instances'
                  /\ instances'[widgets[i].hashed_name] = i
                  /\ \A k \in DOMAIN instances' :
                        k # widgets[i].hashed_name =>
                            k \in DOMAIN instances /\ instances'[k] = instances[k]
        /\ (\A i \in DOMAIN widgets : ~Registering(i)) => instances' = instances
      ]_vars

(* Two widgets of different variants collided on one identifier, and the one *)
(* constructed first registered last: the entry is the first one.            *)
C3_Witness ==
    \E i, j \in DOMAIN widgets :
        /\ i < j
        /\ widgets[i].registered /\ widgets[j].registered
        /\ widgets[i].hashed_name = widgets[j].hashed_name
        /\ widgets[i].variant # widgets[j].variant
        /\ instances[widgets[i].hashed_name] = i
        /\ Cardinality(DOMAIN instances) = 1

(* C4: without an override name the hashed identifier is a function of (site *)
(* secret, base field name, admin class name) alone: two widgets built with  *)
(* the same triple have equal identifiers whatever their request, choice     *)
(* callback, variant or construction order; with an override name the        *)
(* identifier is exactly that name.                                          *)
C4_IdentifierFromTriple ==
    \A i, j \in DOMAIN widgets :
        /\ ( /\ widgets[i].unique_name = None /\ widgets[j].unique_name = None
             /\ widgets[i].base_field.name = widgets[j].base_field.name
             /\ widgets[i].modeladmin.class_name = widgets[j].modeladmin.class_name )
           => widgets[i].hashed_name = widgets[j].hashed_name
        /\ widgets[i].unique_name # None => widgets[i].hashed_name = widgets[i].unique_name.str

C4_Witness ==
    \E i, j \in DOMAIN widgets :
        /\ i # j
        /\ widgets[i].unique_name = None /\ widgets[j].unique_name = None
        /\ widgets[i].base_field = widgets[j].base_field
        /\ widgets[i].modeladmin = widgets[j].modeladmin
        /\ widgets[i].request # widgets[j].request
        /\ widgets[i].variant # widgets[j].variant
        /\ widgets[i].choice_function # widgets[j].choice_function
        /\ widgets[i].hashed_name = widgets[j].hashed_name

(* C5: under one site secret and with no override name, two widgets whose     *)
(* (field name, admin class name) pairs differ have different identifiers and *)
(* so, once registered, occupy different registry entries.                    *)
C5_DistinctPairsDistinctIdentifiers ==
    \A i, j \in DOMAIN widgets :
        ( /\ widgets[i].unique_name = None /\ widgets[j].unique_name = None
          /\ <<widgets[i].base_field.name, widgets[i].modeladmin.class_name>> #
             <<widgets[j].base_field.name, widgets[j].modeladmin.class_name>> )
        => /\ widgets[i].hashed_name # widgets[j].hashed_name
           /\ (widgets[i].registered /\ widgets[j].registered
                  => Cardinality(DOMAIN instances) >= 2)

----------------------------------------------------------------------------
(* Properties of instance resolution (SpecResolve) *)

Declared(name) == \E k \in DOMAIN ModelFields : ModelFields[k].name = name
FieldNamed(name) == ModelFields[CHOOSE k \in DOMAIN ModelFields : ModelFields[k].name = name]
Resolving(method) ==
    op = "_get_instance" /\ (widgets[ret.widget].request.method = "POST") = (method = "POST")
Submitted == widgets[ret.widget].request.POST

(* The submitted value of a declared field coerces successfully. *)
Coerces(name) ==
    /\ FieldNamed(name).formfield
    /\ to_python(FieldNamed(name), Submitted[name]).exc = ""

TrailingSegment(path) ==
    LET solid == {k \in DOMAIN path : path[k] # "/"}
    IN  IF solid = {} THEN <<>>
        ELSE LET last == CHOOSE k \in solid : \A m \in solid : m <= k
                 first == CHOOSE k \in 1..last :
                             /\ \A m \in k..last : path[m] # "/"
                             /\ (k = 1 \/ path[k - 1] = "/")
             IN  SubSeq(path, first, last)

IsInteger(segment) == segment # <<>> /\ \A k \in DOMAIN segment : segment[k] \in {"0", "7"}

IntegerOf(segment) ==
    LET value[k \in 0..Len(segment)] ==
            IF k = 0 THEN 0 ELSE 10 * value[k - 1] + (IF segment[k] = "7" THEN 7 ELSE 0)
    IN  value[Len(segment)]

(* C7: on a request that is not a POST, instance resolution takes the trailing *)
(* segment of the path, surrounding slashes stripped: when the segment is not  *)
(* an integer (an empty path included) it returns no instance, raises nothing  *)
(* and never calls the admin's object fetch; when it is an integer it calls    *)
(* the fetch once, for exactly that identifier, and returns what it found.     *)
C7_TrailingSegmentDecides ==
    Resolving("GET") =>
        LET segment == TrailingSegment(widgets[ret.widget].request.PATH_INFO)
        IN  IF IsInteger(segment)
            THEN /\ Len(trace) = 1
                 /\ trace[1].hook = "get_object"
                 /\ trace[1].args = <<IntegerOf(segment)>>
                 /\ ret.result = Returned(trace[1].result)
            ELSE /\ trace = <<>>
                 /\ ret.result = Returned(None)

(* An identifier between slashes was fetched and the object came back. *)
C7_Witness ==
    /\ Resolving("GET")
    /\ widgets[ret.widget].request.PATH_INFO = <<"/", "7", "/">>
    /\ trace # <<>> /\ trace[1].args = <<7>>
    /\ ret.result.value # None
    /\ ret.result.value.values["id"] = [int |-> 7]

----------------------------------------------------------------------------
(* Properties of render and of the details fragment (SpecRender) *)

RenderedWidget == widgets[ret.widget]
Calls(hooks) == {k \in DOMAIN trace : trace[k].hook \in hooks}

(* The markup the underlying selection control would give. *)
ControlMarkup(w) ==
    "<select" \o (IF w.variant = "SelectMultiple" THEN " multiple=\"multiple\"" ELSE "")
    \o " name=\"" \o w.base_field.name \o "\">"

(* C1: for a widget of either variant whose three hooks are implemented,       *)
(* render(name, value) raises nothing and returns one string: the markup of    *)
(* the selection control, then the script block that publishes the field name  *)
(* and the trigger-field names under the hashed identifier, then the details   *)
(* fragment inside the flexselect_details span.                                *)
C1_RenderReturnsControlScriptDetails ==
    (op = "render" /\ RenderedWidget.hooks /\ ret.instance.exc = "") =>
        /\ ret.result.exc = ""
        /\ \E fragment \in {"", "<p>None</p>", "<p>contact</p>"} :
              ret.result.value =
                  ControlMarkup(RenderedWidget) \o _build_js(RenderedWidget)
                  \o "<span class=\"flexselect_details\">" \o fragment \o "</span>"

(* C8: when instance resolution yields no instance (a GET whose path ends in a *)
(* segment that is not a number) and no custom choice callback is set, then    *)
(* for every trigger-field list, the empty one included, the choices are the   *)
(* single pair ('', empty-state message) and queryset() is not invoked, and    *)
(* the details are the empty string and details() is not invoked.              *)
C8_NoInstanceGivesEmptyState ==
    /\ ( /\ op = "render"
         /\ RenderedWidget.request.method = "GET"
         /\ ret.instance = Returned(None)
         /\ Calls({"get_object"}) = {}
         /\ RenderedWidget.hooks /\ ~RenderedWidget.choice_function )
       => /\ Calls({"queryset"}) = {}
          /\ \E k \in Calls({"empty_choices_text"}) :
                RenderedWidget.choices = << <<[str |-> ""], trace[k].result.str>> >>
    /\ ( /\ op = "details_from_instance"
         /\ ret.instance = Returned(None) )
       => /\ ret.result = Returned("")
          /\ Calls({"details"}) = {}

(* C9 as stated: the choice list a widget holds after a render that assigned *)
(* it starts with the sentinel ('', '---------'), on the queryset path, on   *)
(* the graceful-degradation path and with a custom choice callback.          *)
C9_ChoicesStartWithSentinel ==
    (op = "render" /\ ret.assigned) =>
        /\ RenderedWidget.choices # <<>>
        /\ RenderedWidget.choices[1] = <<[str |-> ""], "---------">>

(* What a render that assigned the choice list must have assigned: the result *)
(* of the one choice computation of that render, made on the instance that    *)
(* render resolved.                                                           *)
ChoicesOfThisRender(w, resolved, calls, choices) ==
    /\ Cardinality({k \in DOMAIN calls : calls[k].hook \in
                       {"choice_function", "queryset", "empty_choices_text"}}) = 1
    /\ \A k \in DOMAIN calls :
          /\ calls[k].hook = "choice_function" =>
                /\ w.choice_function
                /\ calls[k].args = <<resolved>>
                /\ choices = calls[k].result
          /\ calls[k].hook = "queryset" =>
                /\ ~w.choice_function
                /\ calls[k].args = <<resolved>>
                /\ Len(choices) = Len(calls[k].result) + 1
                /\ choices[1] = <<[str |-> ""], "---------">>
                /\ \A m \in DOMAIN calls[k].result :
                      choices[m + 1] = <<[pk |-> calls[k].result[m].pk],
                                         calls[k].result[m].name>>
          /\ calls[k].hook = "empty_choices_text" =>
                /\ ~w.choice_function
                /\ calls[k].args = <<resolved>>
                /\ choices = << <<[str |-> ""], calls[k].result.str>> >>

(* C9, amended: a render in which neither instance resolution nor the choice   *)
(* computation raises assigns the widget's choice list anew, from the instance *)
(* resolved for that render and never from an earlier render: on the queryset  *)
(* path the sentinel ('', '---------') followed by one pair per record that    *)
(* queryset() returned; on the graceful-degradation path the single pair       *)
(* ('', empty_choices_text(instance)), whose label is the empty-state message  *)
(* and not '---------'; with a custom choice callback exactly what the         *)
(* callback returned, sentinel or not. A render that raises before the         *)
(* assignment leaves the list as it was.                                       *)
C9_ChoicesRecomputedEachRender ==
    [][ op' = "render" =>
          IF ret'.assigned
          THEN ChoicesOfThisRender(widgets'[ret'.widget], ret'.instance.value, trace',
                                   widgets'[ret'.widget].choices)
          ELSE widgets'[ret'.widget].choices = widgets[ret'.widget].choices
      ]_vars

(* A render on the graceful-degradation path: the list is one pair whose label *)
(* is the empty-state message.                                                 *)
C9_Witness ==
    /\ op = "render" /\ ret.assigned
    /\ Calls({"empty_choices_text"}) # {}
    /\ RenderedWidget.choices = << <<[str |-> ""], "Select a client first">> >>

(* C10: the details fragment is the empty string whenever no related record is *)
(* resolvable for the base field: a missing instance, a trigger-field or       *)
(* base-field access that raises missing-attribute or missing-record, a        *)
(* base-field relation that is unset (None); details() is invoked only with a  *)
(* related record that exists, and with the instance the call was made for,    *)
(* which in render is the instance the choices were computed from.             *)
C10_NoRelatedRecordNoDetails ==
    /\ (op = "details_from_instance" /\ RenderedWidget.hooks) =>
          LET instance == ret.instance.value
              unresolvable ==
                  \/ instance = None
                  \/ trigger_fields_exc(instance, RenderedWidget.trigger_fields) # ""
                  \/ getattr(instance, RenderedWidget.base_field.name).exc # ""
                  \/ getattr(instance, RenderedWidget.base_field.name).value = None
          IN  /\ unresolvable => ret.result = Returned("")
              /\ \A k \in Calls({"details"}) :
                    trace[k].args[1] # None /\ trace[k].args[2] = instance
    /\ op = "render" =>
          \A k \in Calls({"details"}) :
              trace[k].args[1] # None /\ trace[k].args[2] = ret.instance.value

====
